---------------------------- MODULE Spec2Model ----------------------------
(***************************************************************************)
(* GA-Archivos (Control-Archivos): a browser tool that scans a source      *)
(* folder, derives a new name for each file and copies the visible files   *)
(* to a destination folder.                                                *)
(*                                                                         *)
(* src/utils/fileUtils.ts holds the two helpers getExtension/getBaseName   *)
(* and three variants of the App component:                                *)
(*   variant 1  lines   56-506  find/replace, sort, limit; the batch has   *)
(*                              no collision check                         *)
(*   variant 2  lines  530-1089 size filter, sort; collision check         *)
(*   variant 3  lines 1112-1622 size filter; collision check               *)
(* The model carries the variant as a value fixed in the initial state.    *)
(*                                                                         *)
(* Strings that the program takes apart (file names, prefixes, ...) are    *)
(* sequences of one-character strings; messages are plain strings.  An     *)
(* optional value ('' for a number input, an absent errorMessage) is the   *)
(* empty sequence, a present one a one-element sequence.                   *)
(*                                                                         *)
(* React state is modelled at the granularity of what a render can show:   *)
(* the state updates a handler or an await continuation makes before its   *)
(* next await are one step.                                                *)
(***************************************************************************)
EXTENDS Integers, Sequences, FiniteSets, TLC

\* ------------------------------------------------------------------ bounds
\* The operations a user starts in one behaviour: scans, edits of filters,
\* of the global configuration and of rows, and batch runs.
MaxOps == 3
\* The files of a scanned folder, where the folder is an input.
MaxFiles == 3
\* The pastes of names in one behaviour.
MaxPastes == 1

\* ------------------------------------------------------- string helpers
None == << >>
Some(x) == << x >>

\* String.prototype.lastIndexOf for a one-character needle (0-based, -1).
LastIndexOf(s, c) ==
  IF \E i \in 1..Len(s) : s[i] = c
    THEN (CHOOSE i \in 1..Len(s) : s[i] = c /\ \A j \in (i+1)..Len(s) : s[j] # c) - 1
    ELSE -1

\* (x >>> 0) + 2 : x is converted to an unsigned 32-bit integer first, so a
\* negative x wraps to 2^32 + x.  The tool's integers are 32 bits wide: the
\* wrapped value, larger than the length of any string, is represented by
\* the largest of them.
BeyondAnyString == 2147483647
Uint32Plus2(x) == IF x >= 0 THEN x + 2 ELSE BeyondAnyString

\* String.prototype.slice(from) for from >= 0 (0-based).
Slice(s, from) == IF from >= Len(s) THEN << >> ELSE SubSeq(s, from + 1, Len(s))

\* String.prototype.substring(0, to).
Substring0(s, to) == SubSeq(s, 1, to)

\* filename.slice((filename.lastIndexOf(".") - 1 >>> 0) + 2)
getExtension(filename) ==
  Slice(filename, Uint32Plus2(LastIndexOf(filename, ".") - 1))

getBaseName(filename) ==
  LET lastDot == LastIndexOf(filename, ".")
  IN  IF lastDot = -1 THEN filename ELSE Substring0(filename, lastDot)

StartsWith(s, p) == Len(s) >= Len(p) /\ SubSeq(s, 1, Len(p)) = p

\* A comparison of names that tells the cases apart.
ToLowerCase_Identity(s) == s

\* String.prototype.toLowerCase on the model's alphabet.
LowerChar(c) == IF c = "A" THEN "a" ELSE IF c = "B" THEN "b" ELSE c
ToLowerCase(s) == [i \in 1..Len(s) |-> LowerChar(s[i])]

\* String.prototype.includes
Includes(s, sub) ==
  \E i \in 0..(Len(s) - Len(sub)) : SubSeq(s, i + 1, i + Len(sub)) = sub

\* String.prototype.replace(find, replace) with a string pattern: the first
\* occurrence only.
RECURSIVE SplitJoin_FirstOnly(_, _, _)
SplitJoin_FirstOnly(s, find, replace) ==
  IF Len(s) < Len(find) THEN s
  ELSE IF StartsWith(s, find)
    THEN replace \o Slice(s, Len(find))
    ELSE << s[1] >> \o SplitJoin_FirstOnly(Slice(s, 1), find, replace)

\* base.split(find).join(replace) for a non-empty find: every occurrence,
\* found left to right without overlap, is replaced.
RECURSIVE SplitJoin(_, _, _)
SplitJoin(s, find, replace) ==
  IF Len(s) < Len(find) THEN s
  ELSE IF StartsWith(s, find)
    THEN replace \o SplitJoin(Slice(s, Len(find)), find, replace)
    ELSE << s[1] >> \o SplitJoin(Slice(s, 1), find, replace)

\* White space as String.prototype.trim sees it, on the model's alphabet.
WhiteSpace == { " ", "\t", "\r", "\n" }

\* A trim that takes off blanks only.
RECURSIVE Trim_BlanksOnly(_)
Trim_BlanksOnly(s) ==
  IF s = << >> THEN s
  ELSE IF s[1] = " " THEN Trim_BlanksOnly(Tail(s))
  ELSE IF s[Len(s)] = " " THEN Trim_BlanksOnly(SubSeq(s, 1, Len(s) - 1))
  ELSE s

\* String.prototype.trim
RECURSIVE Trim(_)
Trim(s) ==
  IF s = << >> THEN s
  ELSE IF s[1] \in WhiteSpace THEN Trim(Tail(s))
  ELSE IF s[Len(s)] \in WhiteSpace THEN Trim(SubSeq(s, 1, Len(s) - 1))
  ELSE s

\* text.split('\n'): the pieces between line feeds, at least one piece.
RECURSIVE SplitLines(_)
SplitLines(text) ==
  IF \E i \in 1..Len(text) : text[i] = "\n"
    THEN LET i == CHOOSE i \in 1..Len(text) : text[i] = "\n" /\ \A j \in 1..(i - 1) : text[j] # "\n"
         IN  << SubSeq(text, 1, i - 1) >> \o SplitLines(SubSeq(text, i + 1, Len(text)))
    ELSE << text >>

\* value.replace('.', ''): the first '.' is removed.
RemoveFirstDot(s) ==
  IF \E i \in 1..Len(s) : s[i] = "."
    THEN LET i == CHOOSE i \in 1..Len(s) : s[i] = "." /\ \A j \in 1..(i - 1) : s[j] # "."
         IN  SubSeq(s, 1, i - 1) \o SubSeq(s, i + 1, Len(s))
    ELSE s

\* ------------------------------------------------------ the file systems
\* Dates of the date inputs are day numbers; instants are milliseconds.
DayMs == 86400000
hoy == 2
\* new Date(d + 'T00:00:00') and new Date(d + 'T23:59:59')
StartOfDay(d) == d * DayMs
EndOfDay(d) == d * DayMs + 86399000

\* The entries the source directory enumerates, in enumeration order.
SourceDir ==
  << [kind |-> "file", name |-> << "b", ".", "t" >>, size |-> 2048,
      lastModified |-> StartOfDay(hoy) + 1000, bytes |-> "bytes of b.t"],
     [kind |-> "directory", name |-> << "s" >>, size |-> 0,
      lastModified |-> StartOfDay(hoy), bytes |-> ""],
     [kind |-> "file", name |-> << "a", ".", "t" >>, size |-> 1024,
      lastModified |-> StartOfDay(hoy) + 500, bytes |-> "bytes of a.t"],
     [kind |-> "file", name |-> << "a", "b" >>, size |-> 100,
      lastModified |-> EndOfDay(hoy - 1) + 500, bytes |-> "bytes of ab"] >>

\* Messages of the failures the file system calls can reject with.
\* The message of the failure each file system call rejects with.
IoError ==
  [getFile |-> "NotFoundError", open |-> "NotAllowedError",
   createWritable |-> "NotAllowedError", write |-> "QuotaExceededError",
   close |-> "QuotaExceededError"]

Statuses == { "pending", "processing", "success", "error", "skipped" }
Terminal == { "success", "error", "skipped" }
SortTypes == { "name_asc", "name_desc", "date_asc", "date_desc", "size_asc", "size_desc" }
Variants == { 1, 2, 3 }

\* ------------------------------------------------------- name derivation
\* The global value wins over the item's own.
OrElse_GlobalFirst(a, b) == IF b # << >> THEN b ELSE a

\* truthiness of a string: a || b
OrElse(a, b) == IF a # << >> THEN a ELSE b

\* A name derivation that never looks at the global extension.
getFinalName_NoGlobalExtension(v, f, cfg) ==
  LET prefix == OrElse(f.prefix, cfg.prefix)
      suffix == OrElse(f.suffix, cfg.suffix)
      ext == OrElse(f.extension, getExtension(f.originalName))
      base == IF v = 1 /\ cfg.find # << >>
                THEN SplitJoin(f.customBaseName, cfg.find, cfg.replace)
                ELSE f.customBaseName
      dot == IF v = 3
               THEN (IF ext # << >> THEN << "." >> ELSE << >>)
               ELSE (IF ext # << >> /\ ~StartsWith(ext, << "." >>) THEN << "." >> ELSE << >>)
  IN  prefix \o base \o suffix \o dot \o ext

getFinalName(v, f, cfg) ==
  LET prefix == OrElse(f.prefix, cfg.prefix)
      suffix == OrElse(f.suffix, cfg.suffix)
      ext == OrElse(f.extension, OrElse(cfg.extension, getExtension(f.originalName)))
      base == IF v = 1 /\ cfg.find # << >>
                THEN SplitJoin(f.customBaseName, cfg.find, cfg.replace)
                ELSE f.customBaseName
      dot == IF v = 3
               THEN (IF ext # << >> THEN << "." >> ELSE << >>)
               ELSE (IF ext # << >> /\ ~StartsWith(ext, << "." >>) THEN << "." >> ELSE << >>)
  IN  prefix \o base \o suffix \o dot \o ext

\* ------------------------------------------------- filter, sort and limit
\* String.prototype.localeCompare on the model's alphabet: letters compare
\* without case first, a lowercase letter before its uppercase on a tie.
CollationOrder == << ".", "a", "b", "p", "t" >>
Rank(c) == CHOOSE i \in 1..Len(CollationOrder) : CollationOrder[i] = LowerChar(c)

RECURSIVE LexCompare(_, _, _)
LexCompare(a, b, key) ==
  IF a = << >> /\ b = << >> THEN 0
  ELSE IF a = << >> THEN -1
  ELSE IF b = << >> THEN 1
  ELSE IF key[a[1]] < key[b[1]] THEN -1
  ELSE IF key[a[1]] > key[b[1]] THEN 1
  ELSE LexCompare(Tail(a), Tail(b), key)

Chars == { ".", "a", "b", "p", "t", "A", "B" }
PrimaryKey == [c \in Chars |-> Rank(c)]
CaseKey == [c \in Chars |-> IF LowerChar(c) = c THEN 0 ELSE 1]

localeCompare(a, b) ==
  LET primary == LexCompare(a, b, PrimaryKey)
  IN  IF primary # 0 THEN primary ELSE LexCompare(a, b, CaseKey)

\* The comparator of result.sort; variant 3 does not sort.
Comparator(v, sort, a, b) ==
  IF v = 3 THEN 0
  ELSE CASE sort = "name_asc" -> localeCompare(a.originalName, b.originalName)
         [] sort = "name_desc" -> localeCompare(b.originalName, a.originalName)
         [] sort = "date_asc" -> a.lastModified - b.lastModified
         [] sort = "date_desc" -> b.lastModified - a.lastModified
         [] sort = "size_asc" -> a.size - b.size
         [] sort = "size_desc" -> b.size - a.size
         [] OTHER -> 0

\* A sort that puts an element before the elements it compares equal to.
RECURSIVE StableSort_Unstable(_, _, _)
StableSort_Unstable(v, sort, s) ==
  IF s = << >> THEN << >>
  ELSE LET init == StableSort_Unstable(v, sort, SubSeq(s, 1, Len(s) - 1))
           x == s[Len(s)]
           before == { i \in 1..Len(init) : Comparator(v, sort, init[i], x) < 0 }
           p == IF before = {} THEN 0 ELSE CHOOSE i \in before : \A j \in before : j <= i
       IN  SubSeq(init, 1, p) \o << x >> \o SubSeq(init, p + 1, Len(init))

\* Array.prototype.sort is stable: an element goes after the last element
\* that does not compare greater than it.
RECURSIVE StableSort(_, _, _)
StableSort(v, sort, s) ==
  IF s = << >> THEN << >>
  ELSE LET init == StableSort(v, sort, SubSeq(s, 1, Len(s) - 1))
           x == s[Len(s)]
           before == { i \in 1..Len(init) : Comparator(v, sort, init[i], x) <= 0 }
           p == IF before = {} THEN 0 ELSE CHOOSE i \in before : \A j \in before : j <= i
       IN  SubSeq(init, 1, p) \o << x >> \o SubSeq(init, p + 1, Len(init))

\* The predicate of files.filter; variant 1 has no size clause.
MatchesFilter(v, f, flt) ==
  LET matchesSearch == Includes(ToLowerCase(f.originalName), ToLowerCase(flt.search))
      matchesSize == f.size >= flt.minSize * 1024
      matchesDate == /\ (flt.dateStart = None \/ f.lastModified >= StartOfDay(flt.dateStart[1]))
                     /\ (flt.dateEnd = None \/ f.lastModified <= EndOfDay(flt.dateEnd[1]))
  IN  IF v = 1 THEN matchesSearch /\ matchesDate
               ELSE matchesSearch /\ matchesSize /\ matchesDate

\* result.slice(0, filters.limit); only variant 1 has a limit.
ApplyLimit(v, flt, s) ==
  IF v = 1 /\ flt.limit # None /\ flt.limit[1] > 0
    THEN SubSeq(s, 1, IF flt.limit[1] < Len(s) THEN flt.limit[1] ELSE Len(s))
    ELSE s

\* A pipeline that cuts to the limit before it sorts.
filteredFilesOf_LimitFirst(v, fs, flt) ==
  StableSort(v, flt.sort, ApplyLimit(v, flt, SelectSeq(fs, LAMBDA f : MatchesFilter(v, f, flt))))

filteredFilesOf(v, fs, flt) ==
  ApplyLimit(v, flt, StableSort(v, flt.sort, SelectSeq(fs, LAMBDA f : MatchesFilter(v, f, flt))))

\* ------------------------------------------------------------------ state
VARIABLES
  variant,       \* which of the three App components runs
  files,         \* useState<FileItem[]>
  globalConfig,  \* useState<GlobalConfig>
  filters,       \* useState<FilterState>
  destHandle,    \* TRUE once a destination directory is selected
  dest,          \* the destination directory: final name -> bytes
  isProcessing,  \* useState(false)
  showConfirm,   \* useState(false): the confirmation dialog is open
  batch,         \* the running executeBatch call: its closure and position
  nextId,        \* ids handed out so far (crypto.randomUUID is fresh)
  nOps           \* operations the user has started

vars == << variant, files, globalConfig, filters, destHandle, dest,
           isProcessing, showConfirm, batch, nextId, nOps >>

InitialGlobalConfig ==
  [prefix |-> << >>, suffix |-> << >>, extension |-> << >>, overwrite |-> FALSE,
   find |-> << >>, replace |-> << >>]

InitialFilters ==
  [search |-> << >>, dateStart |-> Some(hoy), dateEnd |-> Some(hoy), minSize |-> 0,
   sort |-> "name_asc", limit |-> None]

\* No executeBatch call is running.
IdleBatch ==
  [pc |-> "idle", updatedFiles |-> << >>, filteredFiles |-> << >>,
   globalConfig |-> InitialGlobalConfig, pos |-> 0]

Init ==
  /\ variant \in Variants
  /\ files = << >>
  /\ globalConfig = InitialGlobalConfig
  /\ filters = InitialFilters
  /\ destHandle = FALSE
  /\ dest = << >>
  /\ isProcessing = FALSE
  /\ showConfirm = FALSE
  /\ batch = IdleBatch
  /\ nextId = 0
  /\ nOps = 0

\* The memoized visible set of the current render.
filteredFiles == filteredFilesOf(variant, files, filters)

IdsOf(fs) == { fs[i].id : i \in 1..Len(fs) }

\* ------------------------------------------------------------------- scan
\* newFiles.push({...}) for one entry of kind 'file'; file is what
\* entry.getFile() resolved with.
FileItemOf(id, handle, file) ==
  [id |-> id, handle |-> handle, originalName |-> file.name, size |-> file.size,
   lastModified |-> file.lastModified,
   customBaseName |-> getBaseName(file.name),
   prefix |-> << >>, suffix |-> << >>, extension |-> getExtension(file.name),
   status |-> "pending", errorMessage |-> None]

NewFileItem(id, handle) == FileItemOf(id, handle, SourceDir[handle])

FileEntries == SelectSeq([i \in 1..Len(SourceDir) |-> i], LAMBDA i : SourceDir[i].kind = "file")

\* A scan that adds what it finds to the collection.
ScanFiles_Merges ==
  /\ nOps < MaxOps
  /\ files' = files \o [k \in 1..Len(FileEntries) |-> NewFileItem(nextId + k, FileEntries[k])]
  /\ nextId' = nextId + Len(FileEntries)
  /\ nOps' = nOps + 1
  /\ UNCHANGED << variant, globalConfig, filters, destHandle, dest, isProcessing,
                  showConfirm, batch >>

\* selectSource: the picker resolves and scanFiles enumerates the directory.
ScanFiles ==
  /\ nOps < MaxOps
  /\ files' = [k \in 1..Len(FileEntries) |-> NewFileItem(nextId + k, FileEntries[k])]
  /\ nextId' = nextId + Len(FileEntries)
  /\ nOps' = nOps + 1
  /\ UNCHANGED << variant, globalConfig, filters, destHandle, dest, isProcessing,
                  showConfirm, batch >>

SelectDestination ==
  /\ ~destHandle
  /\ ~showConfirm
  /\ destHandle' = TRUE
  /\ UNCHANGED << variant, files, globalConfig, filters, dest, isProcessing,
                  showConfirm, batch, nextId, nOps >>

\* ------------------------------------------------------------- user edits
\* The inputs are reachable while the confirmation dialog does not cover them.
UserEvent ==
  /\ ~showConfirm
  /\ nOps < MaxOps
  /\ nOps' = nOps + 1

SetFilter(field, value) ==
  /\ UserEvent
  /\ filters[field] # value
  /\ filters' = [filters EXCEPT ![field] = value]
  /\ UNCHANGED << variant, files, globalConfig, destHandle, dest, isProcessing,
                  showConfirm, batch, nextId >>

SetSearch == \E s \in { << >>, << "a" >> } : SetFilter("search", s)
SetDateStart == \E d \in { None, Some(hoy) } : SetFilter("dateStart", d)
SetDateEnd == \E d \in { Some(hoy - 1), Some(hoy) } : SetFilter("dateEnd", d)
SetSort == variant \in { 1, 2 } /\ \E s \in { "name_asc", "size_desc" } : SetFilter("sort", s)
SetLimit == variant = 1 /\ \E l \in { None, Some(1) } : SetFilter("limit", l)

SetGlobal(field, value) ==
  /\ UserEvent
  /\ globalConfig[field] # value
  /\ globalConfig' = [globalConfig EXCEPT ![field] = value]
  /\ UNCHANGED << variant, files, filters, destHandle, dest, isProcessing,
                  showConfirm, batch, nextId >>

SetOverwrite == \E o \in BOOLEAN : SetGlobal("overwrite", o)

\* A row edit that also puts the row back to pending.
EditRow_ResetsStatus(fs, id, field, value) ==
  [i \in 1..Len(fs) |->
     IF fs[i].id = id THEN [fs[i] EXCEPT ![field] = value, !.status = "pending"] ELSE fs[i]]

\* onChange of a row input: setFiles(prev => prev.map(i => i.id === f.id ? {...} : i))
EditRow(fs, id, field, value) ==
  [i \in 1..Len(fs) |-> IF fs[i].id = id THEN [fs[i] EXCEPT ![field] = value] ELSE fs[i]]

SetCustomBaseName ==
  /\ UserEvent
  /\ \E i \in 1..Len(filteredFiles) : \E value \in { << "a" >> } :
       /\ filteredFiles[i].customBaseName # value
       /\ files' = EditRow(files, filteredFiles[i].id, "customBaseName", value)
  /\ UNCHANGED << variant, globalConfig, filters, destHandle, dest, isProcessing,
                  showConfirm, batch, nextId >>

\* ------------------------------------------------------------------ batch
\* An EJECUTAR button that stays enabled during a run.
ClickExecute_WhileProcessing ==
  /\ ~(Len(filteredFiles) = 0 \/ ~destHandle)
  /\ ~showConfirm
  /\ nOps < MaxOps
  /\ showConfirm' = TRUE
  /\ UNCHANGED << variant, files, globalConfig, filters, destHandle, dest,
                  isProcessing, batch, nextId, nOps >>

\* The EJECUTAR button and the Cancelar button of the dialog.
ClickExecute ==
  /\ ~(Len(filteredFiles) = 0 \/ ~destHandle \/ isProcessing)
  /\ ~showConfirm
  /\ nOps < MaxOps
  /\ showConfirm' = TRUE
  /\ UNCHANGED << variant, files, globalConfig, filters, destHandle, dest,
                  isProcessing, batch, nextId, nOps >>

CancelConfirm ==
  /\ showConfirm
  /\ showConfirm' = FALSE
  /\ UNCHANGED << variant, files, globalConfig, filters, destHandle, dest,
                  isProcessing, batch, nextId, nOps >>

\* updatedFiles.findIndex(uf => uf.id === f.id), 1-based; 0 when absent.
IndexOfId(fs, id) ==
  IF id \in IdsOf(fs)
    THEN CHOOSE i \in 1..Len(fs) : fs[i].id = id /\ \A j \in 1..(i - 1) : fs[j].id # id
    ELSE 0

\* A loop over the visible set of the current render, not the captured one.
LoopItem_Live(b, p) ==
  IF p <= Len(filteredFiles) THEN filteredFiles[p] ELSE b.filteredFiles[p]

\* for (const f of filteredFiles): the p-th item of the captured visible set.
LoopItem(b, p) == b.filteredFiles[p]
LoopLength(b) == Len(b.filteredFiles)

\* Every item still pending is shown as processing along with the one taken up.
MarkProcessing_AllPending(uf, idx) ==
  [i \in 1..Len(uf) |->
     IF i = idx \/ uf[i].status = "pending"
       THEN [uf[i] EXCEPT !.status = "processing"] ELSE uf[i]]

MarkProcessing(uf, idx) == [uf EXCEPT ![idx].status = "processing"]
MarkSuccess(uf, idx) == [uf EXCEPT ![idx].status = "success"]
MarkSkipped(uf, idx) ==
  [uf EXCEPT ![idx].status = "skipped", ![idx].errorMessage = Some("Ya existe")]
\* A failed item is put back to pending, to be tried again.
MarkError_BackToPending(uf, idx, message) ==
  [uf EXCEPT ![idx].status = "pending", ![idx].errorMessage = Some(message)]

MarkError(uf, idx, message) ==
  [uf EXCEPT ![idx].status = "error", ![idx].errorMessage = Some(message)]

\* The top of one loop iteration, up to the first await (f.handle.getFile()).
BeginItem(b, p) ==
  LET idx == IndexOfId(b.updatedFiles, LoopItem(b, p).id)
  IN  [b EXCEPT !.pos = p, !.pc = "getFile",
                !.updatedFiles = MarkProcessing(b.updatedFiles, idx)]

CurrentItem == LoopItem(batch, batch.pos)
CurrentIdx == IndexOfId(batch.updatedFiles, CurrentItem.id)
FinalName == getFinalName(variant, CurrentItem, batch.globalConfig)

\* A loop that never reaches setIsProcessing(false).
Advance_NeverEnds(uf) ==
  IF batch.pos < LoopLength(batch)
    THEN LET nb == BeginItem([batch EXCEPT !.updatedFiles = uf], batch.pos + 1)
         IN  /\ batch' = nb
             /\ files' = nb.updatedFiles
             /\ isProcessing' = TRUE
    ELSE /\ batch' = IdleBatch
         /\ files' = uf
         /\ isProcessing' = TRUE

\* The end of one loop iteration, setFiles([...updatedFiles]), and either the
\* top of the next iteration or setIsProcessing(false).
Advance(uf) ==
  IF batch.pos < LoopLength(batch)
    THEN LET nb == BeginItem([batch EXCEPT !.updatedFiles = uf], batch.pos + 1)
         IN  /\ batch' = nb
             /\ files' = nb.updatedFiles
             /\ isProcessing' = TRUE
    ELSE /\ batch' = IdleBatch
         /\ files' = uf
         /\ isProcessing' = FALSE

\* A batch over the whole collection, not the visible set.
CapturedVisible_All == files

\* The closure of executeBatch: files, filteredFiles and globalConfig of the
\* render whose dialog button was clicked.
CapturedVisible == filteredFiles
CapturedFiles == files

\* The Iniciar button: executeBatch up to its first await.
ExecuteBatch ==
  /\ showConfirm
  /\ destHandle
  /\ showConfirm' = FALSE
  /\ nOps' = nOps + 1
  /\ LET b == [IdleBatch EXCEPT !.updatedFiles = CapturedFiles,
                                !.filteredFiles = CapturedVisible,
                                !.globalConfig = globalConfig]
     IN  IF LoopLength(b) = 0
           THEN /\ batch' = IdleBatch
                /\ isProcessing' = FALSE
                /\ files' = files
           ELSE LET nb == BeginItem(b, 1)
                IN  /\ batch' = nb
                    /\ files' = nb.updatedFiles
                    /\ isProcessing' = TRUE
  /\ UNCHANGED << variant, globalConfig, filters, destHandle, dest, nextId >>

Step(pc) == batch' = [batch EXCEPT !.pc = pc] /\ UNCHANGED << files, isProcessing >>

\* await f.handle.getFile() resolves.
GetFileResolves ==
  /\ batch.pc = "getFile"
  /\ Step(IF variant = 1 THEN "open" ELSE "check")
  /\ UNCHANGED << variant, globalConfig, filters, destHandle, dest, showConfirm,
                  nextId, nOps >>

\* A collision check that skips whatever the overwrite setting is.
CheckResolves_AlwaysSkips ==
  /\ batch.pc = "check"
  /\ FinalName \in DOMAIN dest
  /\ Advance(MarkSkipped(batch.updatedFiles, CurrentIdx))
  /\ UNCHANGED << variant, globalConfig, filters, destHandle, dest, showConfirm,
                  nextId, nOps >>

\* await destHandle.getFileHandle(finalName, { create: false }) resolves: the
\* entry exists.
CheckResolves ==
  /\ batch.pc = "check"
  /\ FinalName \in DOMAIN dest
  /\ IF ~batch.globalConfig.overwrite
       THEN Advance(MarkSkipped(batch.updatedFiles, CurrentIdx))
       ELSE Step("open")
  /\ UNCHANGED << variant, globalConfig, filters, destHandle, dest, showConfirm,
                  nextId, nOps >>

\* ... rejects: there is no such entry; catch (e) {} swallows the rejection.
CheckRejects ==
  /\ batch.pc = "check"
  /\ FinalName \notin DOMAIN dest
  /\ Step("open")
  /\ UNCHANGED << variant, globalConfig, filters, destHandle, dest, showConfirm,
                  nextId, nOps >>

\* getFileHandle(name, { create: true }): an absent entry is created empty.
CreateEntry(d, name) == IF name \in DOMAIN d THEN d ELSE d @@ (name :> "")
\* writable.close() commits the bytes written.
CommitEntry(d, name, bytes) == [n \in DOMAIN d \cup { name } |-> IF n = name THEN bytes ELSE d[n]]

OpenResolves ==
  /\ batch.pc = "open"
  /\ dest' = CreateEntry(dest, FinalName)
  /\ Step("createWritable")
  /\ UNCHANGED << variant, globalConfig, filters, destHandle, showConfirm,
                  nextId, nOps >>

CreateWritableResolves ==
  /\ batch.pc = "createWritable"
  /\ Step("write")
  /\ UNCHANGED << variant, globalConfig, filters, destHandle, dest, showConfirm,
                  nextId, nOps >>

WriteResolves ==
  /\ batch.pc = "write"
  /\ Step("close")
  /\ UNCHANGED << variant, globalConfig, filters, destHandle, dest, showConfirm,
                  nextId, nOps >>

CloseResolves ==
  /\ batch.pc = "close"
  /\ dest' = CommitEntry(dest, FinalName, SourceDir[CurrentItem.handle].bytes)
  /\ Advance(MarkSuccess(batch.updatedFiles, CurrentIdx))
  /\ UNCHANGED << variant, globalConfig, filters, destHandle, showConfirm,
                  nextId, nOps >>

\* A rejection that leaves the loop: the catch is around the loop, not in it.
Rejects_Aborts ==
  /\ batch.pc \in DOMAIN IoError
  /\ batch' = IdleBatch
  /\ files' = MarkError(batch.updatedFiles, CurrentIdx, IoError[batch.pc])
  /\ isProcessing' = FALSE
  /\ UNCHANGED << variant, globalConfig, filters, destHandle, dest, showConfirm,
                  nextId, nOps >>

\* Any await of the outer try rejects: catch (err) sets status 'error'.
Rejects ==
  /\ batch.pc \in DOMAIN IoError
  /\ Advance(MarkError(batch.updatedFiles, CurrentIdx, IoError[batch.pc]))
  /\ UNCHANGED << variant, globalConfig, filters, destHandle, dest, showConfirm,
                  nextId, nOps >>

BatchStep ==
  \/ GetFileResolves \/ CheckResolves \/ CheckRejects \/ OpenResolves
  \/ CreateWritableResolves \/ WriteResolves \/ CloseResolves \/ Rejects

Next ==
  \/ ScanFiles \/ SelectDestination
  \/ SetSearch \/ SetDateStart \/ SetDateEnd \/ SetSort \/ SetLimit
  \/ SetOverwrite \/ SetCustomBaseName
  \/ ClickExecute \/ CancelConfirm \/ ExecuteBatch
  \/ BatchStep

Spec == Init /\ [][Next]_vars

\* Every await of a started batch settles: the file system answers each call.
LiveSpec == Spec /\ WF_vars(BatchStep)

\* ------------------------------------------------------- the scan, alone
\* A scan that shows the items it had built when the enumeration failed.
ScanFails_KeepsPartial(k) ==
  /\ nOps < MaxOps
  /\ files' = [j \in 1..k |-> NewFileItem(nextId + j, FileEntries[j])]
  /\ nextId' = nextId + k
  /\ nOps' = nOps + 1
  /\ UNCHANGED << variant, globalConfig, filters, destHandle, dest, isProcessing,
                  showConfirm, batch >>

\* scanFiles when handle.values() or entry.getFile() rejects after k items
\* were pushed to newFiles: the catch is reached, setFiles is not.
ScanFails(k) ==
  /\ nOps < MaxOps
  /\ files' = files
  /\ nextId' = nextId + k
  /\ nOps' = nOps + 1
  /\ UNCHANGED << variant, globalConfig, filters, destHandle, dest, isProcessing,
                  showConfirm, batch >>

\* The enumeration fails at its first entry or at a later one.
ScanAborts == \E k \in 0..(Len(FileEntries) - 1) : ScanFails(k)

ScanNext ==
  \/ ScanFiles \/ ScanAborts
  \/ SetSearch \/ SetDateStart \/ SetDateEnd \/ SetSort \/ SetLimit
  \/ SetCustomBaseName

ScanSpec == Init /\ [][ScanNext]_vars

\* ------------------------------------------------ name derivation, alone
\* getFinalName(f) is the preview of every row.  Its inputs are the row of a
\* scanned file and the global configuration, set through their text inputs.
NamedFiles ==
  { << "a", ".", "t" >>, << "a", "b" >>, << ".", "b" >>, << "a", "." >>,
    << "a", ".", "b", ".", "t" >> }

\* What is typed into the inputs.
GlobalPrefixes == { << >>, << "I", "M", "G", "_" >> }
GlobalSuffixes == { << >>, << "_", "v", "1" >> }
GlobalExtensions == { << >>, << ".", "p", "n", "g" >>, << ".", ".", "t" >> }
Finds == { << >>, << "d", "r", "a", "f", "t" >>, << "a", "a" >>, << "p" >> }
Replaces == { << >>, << "f", "i", "n", "a", "l" >> }
RowPrefixes == { << >>, << "p", "_" >> }
RowSuffixes == { << >>, << "_", "p" >> }
RowExtensions == { << >>, << "p", "n", "g" >>, << ".", "p", "n", "g" >> }
RowBaseNames ==
  { << "r", "e", "p", "o", "r", "t" >>,
    << "d", "r", "a", "f", "t", "_", "r", "e", "p", "o", "r", "t", "_", "d", "r", "a", "f", "t" >>,
    << "a", "a", "a" >> }

NameInit ==
  /\ variant \in Variants
  /\ \E n \in NamedFiles :
       files = << FileItemOf(1, 1, [kind |-> "file", name |-> n, size |-> 1024,
                                    lastModified |-> StartOfDay(hoy), bytes |-> ""]) >>
  /\ globalConfig = InitialGlobalConfig
  /\ filters = InitialFilters
  /\ destHandle = FALSE
  /\ dest = << >>
  /\ isProcessing = FALSE
  /\ showConfirm = FALSE
  /\ batch = IdleBatch
  /\ nextId = 1
  /\ nOps = 0

\* onChange of an input of the global configuration.
TypeGlobal(field, value) ==
  /\ globalConfig[field] # value
  /\ globalConfig' = [globalConfig EXCEPT ![field] = value]
  /\ UNCHANGED << variant, files, filters, destHandle, dest, isProcessing,
                  showConfirm, batch, nextId, nOps >>

TypeGlobalPrefix == \E s \in GlobalPrefixes : TypeGlobal("prefix", s)
TypeGlobalSuffix == \E s \in GlobalSuffixes : TypeGlobal("suffix", s)
\* Variants 2 and 3 have the input; it drops the first '.' of what is typed.
TypeGlobalExtension ==
  variant \in { 2, 3 } /\ \E s \in GlobalExtensions : TypeGlobal("extension", RemoveFirstDot(s))
\* Variant 1 has the inputs 'Buscar' and 'Reemplazar'.
TypeFind == variant = 1 /\ \E s \in Finds : TypeGlobal("find", s)
TypeReplace == variant = 1 /\ \E s \in Replaces : TypeGlobal("replace", s)

\* onChange of an input of a visible row.
TypeRow(field, value) ==
  /\ \E i \in 1..Len(filteredFiles) :
       /\ filteredFiles[i][field] # value
       /\ files' = EditRow(files, filteredFiles[i].id, field, value)
  /\ UNCHANGED << variant, globalConfig, filters, destHandle, dest, isProcessing,
                  showConfirm, batch, nextId, nOps >>

TypeRowPrefix == \E s \in RowPrefixes : TypeRow("prefix", s)
TypeRowBaseName == \E s \in RowBaseNames : TypeRow("customBaseName", s)
TypeRowSuffix == \E s \in RowSuffixes : TypeRow("suffix", s)
TypeRowExtension == \E s \in RowExtensions : TypeRow("extension", s)

NameNext ==
  \/ TypeGlobalPrefix \/ TypeGlobalSuffix \/ TypeGlobalExtension
  \/ TypeFind \/ TypeReplace
  \/ TypeRowPrefix \/ TypeRowBaseName \/ TypeRowSuffix \/ TypeRowExtension

NameSpec == NameInit /\ [][NameNext]_vars

\* {getFinalName(f)} in the cell 'Nombre final' of a row.
ShownName(f) == getFinalName(variant, f, globalConfig)

\* ------------------------------------------- filter, sort and limit, alone
\* filteredFiles is recomputed from files and filters.  Its inputs are the
\* scan of a folder and the filters, set through their inputs.
FolderEntries ==
  << [kind |-> "file", name |-> << "B", ".", "t" >>, size |-> 2048,
      lastModified |-> StartOfDay(hoy), bytes |-> ""],
     [kind |-> "file", name |-> << "a", ".", "t" >>, size |-> 2048,
      lastModified |-> StartOfDay(hoy), bytes |-> ""],
     [kind |-> "file", name |-> << "a", "b" >>, size |-> 100,
      lastModified |-> EndOfDay(hoy) + 1, bytes |-> ""],
     [kind |-> "file", name |-> << "b", "a" >>, size |-> 1024,
      lastModified |-> EndOfDay(hoy - 1), bytes |-> ""] >>

\* The folders: up to MaxFiles of the entries, in any enumeration order.
Folders ==
  { d \in UNION { [1..n -> 1..Len(FolderEntries)] : n \in 0..MaxFiles } :
      \A i, j \in DOMAIN d : i # j => d[i] # d[j] }

\* What is typed or picked in the filter inputs.
Searches == { << >>, << "a" >>, << "B" >> }
DateStarts == { None, Some(hoy) }
DateEnds == { None, Some(hoy - 1), Some(hoy) }
Limits == { None, Some(-1), Some(0), Some(1), Some(2) }

ViewInit ==
  /\ variant \in Variants
  /\ \E d \in Folders :
       files = [k \in 1..Len(d) |-> FileItemOf(k, d[k], FolderEntries[d[k]])]
  /\ globalConfig = InitialGlobalConfig
  /\ filters = InitialFilters
  /\ destHandle = FALSE
  /\ dest = << >>
  /\ isProcessing = FALSE
  /\ showConfirm = FALSE
  /\ batch = IdleBatch
  /\ nextId = Len(files)
  /\ nOps = 0

\* onChange of a filter input: setFilters(prev => ({...prev, field: value}))
PickFilter(field, value) ==
  /\ filters[field] # value
  /\ filters' = [filters EXCEPT ![field] = value]
  /\ UNCHANGED << variant, files, globalConfig, destHandle, dest, isProcessing,
                  showConfirm, batch, nextId, nOps >>

TypeSearch == \E s \in Searches : PickFilter("search", s)
PickDateStart == \E d \in DateStarts : PickFilter("dateStart", d)
PickDateEnd == \E d \in DateEnds : PickFilter("dateEnd", d)
\* Variants 1 and 2 have the sort select, variant 1 the limit input.
PickSort == variant \in { 1, 2 } /\ \E k \in SortTypes : PickFilter("sort", k)
TypeLimit == variant = 1 /\ \E l \in Limits : PickFilter("limit", l)

ViewNext == TypeSearch \/ PickDateStart \/ PickDateEnd \/ PickSort \/ TypeLimit

ViewSpec == ViewInit /\ [][ViewNext]_vars

\* --------------------------------------------------- pasted names, alone
\* pastedNames.split('\n').filter(n => n.trim() !== '')
NamesOf(text) == SelectSeq(SplitLines(text), LAMBDA n : Trim(n) # << >>)

\* A mapping by the position of the item in the collection.
PasteNames_ByCollectionIndex(fs, view, text) ==
  LET names == NamesOf(text)
  IN  [i \in 1..Len(fs) |->
         IF IndexOfId(view, fs[i].id) # 0 /\ i <= Len(names) /\ names[i] # << >>
           THEN [fs[i] EXCEPT !.customBaseName = Trim(names[i])]
           ELSE fs[i]]

\* prev.map(f => ...) of applyPastedNames: view is the visible set of the
\* render; names[idxInView] is undefined beyond the end of names.
PasteNames(fs, view, text) ==
  LET names == NamesOf(text)
  IN  [i \in 1..Len(fs) |->
         LET idxInView == IndexOfId(view, fs[i].id)
         IN  IF idxInView # 0 /\ idxInView <= Len(names) /\ names[idxInView] # << >>
               THEN [fs[i] EXCEPT !.customBaseName = Trim(names[idxInView])]
               ELSE fs[i]]

\* The button 'Asignar a Lista Visible', with text in the textarea.
ApplyPastedNames(text) ==
  /\ nOps < MaxPastes
  /\ nOps' = nOps + 1
  /\ files' = PasteNames(files, filteredFiles, text)
  /\ UNCHANGED << variant, globalConfig, filters, destHandle, dest, isProcessing,
                  showConfirm, batch, nextId >>

\* The texts pasted: these lines, joined by a line end.
PastedLines ==
  { << >>,
    << << "x" >> >>,
    << << " ", "y", " " >>, << >>, << "x" >> >>,
    << << " " >>, << "z" >>, << >> >>,
    << << "x" >>, << "y" >>, << "z", "\t" >>, << "x" >> >> }
LineEnds == { << "\n" >>, << "\r", "\n" >> }

RECURSIVE JoinLines(_, _)
JoinLines(ls, eol) ==
  IF ls = << >> THEN << >>
  ELSE IF Len(ls) = 1 THEN ls[1]
  ELSE ls[1] \o eol \o JoinLines(Tail(ls), eol)

Paste == \E ls \in PastedLines : \E eol \in LineEnds : ApplyPastedNames(JoinLines(ls, eol))

PasteNext == Paste \/ TypeSearch \/ PickDateStart

PasteSpec == ViewInit /\ [][PasteNext]_vars

\* ------------------------------------------------------------- vocabulary
Running == batch.pc # "idle"
StatusOf(fs, id) == fs[IndexOfId(fs, id)].status
MessageOf(fs, id) == fs[IndexOfId(fs, id)].errorMessage
IdSeq(fs) == [i \in 1..Len(fs) |-> fs[i].id]
TerminalCount(fs) == Cardinality({ i \in 1..Len(fs) : fs[i].status \in Terminal })
\* The step ends the turn of the item the batch is at.
TurnEnds == Running /\ (~Running' \/ batch'.pos # batch.pos)

\* ----------------------------------------------------------------- claims

\* C1: when an await of the item the batch is at rejects, that item gets
\* status 'error' with the rejection's message as errorMessage, and the loop
\* goes on: the next item of the captured visible set is taken up, or, after
\* the last item, the batch ends with every captured item in a terminal
\* status.
C1_FailureIsolated ==
  [][Rejects =>
       LET id == CurrentItem.id
       IN  /\ StatusOf(files', id) = "error"
           /\ MessageOf(files', id) = Some(IoError[batch.pc])
           /\ IF batch.pos < Len(batch.filteredFiles)
                THEN /\ batch'.pos = batch.pos + 1
                     /\ batch'.pc = "getFile"
                     /\ batch'.filteredFiles = batch.filteredFiles
                     /\ StatusOf(files', batch.filteredFiles[batch.pos + 1].id) = "processing"
                ELSE /\ ~isProcessing'
                     /\ \A p \in 1..Len(batch.filteredFiles) :
                          StatusOf(files', batch.filteredFiles[p].id) \in Terminal]_vars

\* An item failed and the batch went on to a later item.
C1_Witness ==
  /\ Running
  /\ batch.pos >= 2
  /\ StatusOf(files, batch.filteredFiles[1].id) = "error"
  /\ MessageOf(files, batch.filteredFiles[1].id) = Some("NotFoundError")

\* C2: once the source is read, an item whose final name is an entry of the
\* destination is, with overwrite off, skipped with the message 'Ya existe',
\* and the step leaves the destination as it is.
C2_ExistingEntryIsSkipped ==
  [][(BatchStep /\ batch.pc \in { "check", "open" }
        /\ FinalName \in DOMAIN dest /\ ~batch.globalConfig.overwrite)
       => /\ dest' = dest
          /\ StatusOf(files', CurrentItem.id) = "skipped"
          /\ MessageOf(files', CurrentItem.id) = Some("Ya existe")]_vars

\* C3: with overwrite off, an item that ended 'success' in an earlier run and
\* whose copy is in the destination ends its turn in a later run, unless a
\* call fails, as 'skipped', and that turn leaves the destination as it is.
C3_SecondRunSkips ==
  [][(TurnEnds /\ ~Rejects
        /\ CurrentItem.status = "success"
        /\ ~batch.globalConfig.overwrite
        /\ FinalName \in DOMAIN dest
        /\ dest[FinalName] = SourceDir[CurrentItem.handle].bytes)
       => /\ StatusOf(files', CurrentItem.id) = "skipped"
          /\ dest' = dest]_vars

\* A status change of one item that stays in the collection.
PendingToProcessing(a, b) == a = "pending" /\ b = "processing"
ProcessingToTerminal(a, b) == a = "processing" /\ b \in Terminal
\* The running batch takes the item up: the step puts the batch at it.
TakenUp(id) == Running' /\ batch'.pc = "getFile" /\ batch'.filteredFiles[batch'.pos].id = id
Kept == IdsOf(files) \cap IdsOf(files')

\* C4 as stated: an item that stays in the collection changes its status
\* only from pending to processing and from processing to a terminal status.
C4_TerminalIsFinal ==
  [][\A id \in Kept :
       LET a == StatusOf(files, id)
           b == StatusOf(files', id)
       IN  a = b \/ PendingToProcessing(a, b) \/ ProcessingToTerminal(a, b)]_vars

\* C4 as amended: the only other change is from a terminal status to
\* processing, made by a later batch run when it takes the item up.
C4_StatusTransitions ==
  [][\A id \in Kept :
       LET a == StatusOf(files, id)
           b == StatusOf(files', id)
       IN  \/ a = b
           \/ PendingToProcessing(a, b) /\ TakenUp(id)
           \/ ProcessingToTerminal(a, b) /\ TurnEnds
           \/ a \in Terminal /\ b = "processing" /\ TakenUp(id)]_vars

\* A later run has taken up an item that an earlier run left terminal.
C4_Witness ==
  /\ Running
  /\ batch.filteredFiles[batch.pos].status \in Terminal
  /\ StatusOf(files, batch.filteredFiles[batch.pos].id) = "processing"

\* C5: an item has an errorMessage only while its status is error or skipped.
C5_MessageOnlyOnErrorOrSkipped ==
  \A i \in 1..Len(files) :
    files[i].errorMessage # None => files[i].status \in { "error", "skipped" }

\* C6: the run works on the visible set of the moment it was triggered: the
\* captured sequence is that visible set, it stays the same to the end of
\* the run, the run goes through it position by position to its end, and
\* the item in work is the one at the run's position in it.
C6_SnapshotOfVisibleSet ==
  [][/\ (~Running /\ Running') =>
          /\ IdSeq(batch'.filteredFiles) = IdSeq(filteredFiles)
          /\ batch'.pos = 1
     /\ (Running /\ Running') =>
          /\ batch'.filteredFiles = batch.filteredFiles
          /\ batch'.pos \in { batch.pos, batch.pos + 1 }
     /\ (Running /\ ~Running') => batch.pos = Len(batch.filteredFiles)
     /\ Running' =>
          \A i \in 1..Len(batch'.updatedFiles) :
            batch'.updatedFiles[i].status = "processing"
              <=> batch'.updatedFiles[i].id = batch'.filteredFiles[batch'.pos].id]_vars

\* A filter was changed during a run, which has since moved on: the visible
\* set of the render differs from the one the run works on.
C6_Witness ==
  /\ Running
  /\ batch.pos >= 2
  /\ IdsOf(files) = IdsOf(batch.updatedFiles)
  /\ IdSeq(filteredFiles) # IdSeq(batch.filteredFiles)

\* C7: a started batch ends, and when it ends every item of the captured
\* visible set is terminal and no item of the collection is processing.
C7_BatchTerminates ==
  /\ isProcessing ~> ~isProcessing
  /\ [][(isProcessing /\ ~isProcessing') =>
          /\ \A p \in 1..Len(batch.filteredFiles) :
               StatusOf(files', batch.filteredFiles[p].id) \in Terminal
          /\ \A i \in 1..Len(files') : files'[i].status # "processing"]_vars

\* A batch over two items or more has ended.
C7_Witness ==
  /\ ~isProcessing
  /\ TerminalCount(files) >= 2

\* C8: at most one item is processing; in a run, the captured items before
\* the run's position are terminal, the one at it is processing and none
\* after it is.
C8_OneAtATime ==
  /\ Cardinality({ i \in 1..Len(files) : files[i].status = "processing" }) <= 1
  /\ isProcessing <=> Running
  /\ Running =>
       \A p \in 1..Len(batch.filteredFiles) :
         LET st == StatusOf(batch.updatedFiles, batch.filteredFiles[p].id)
         IN  /\ p < batch.pos => st \in Terminal
             /\ p = batch.pos => st = "processing"
             /\ p > batch.pos => st # "processing"

\* The batch is at its second item.
C8_Witness ==
  /\ Running
  /\ batch.pos = 2
  /\ StatusOf(files, batch.filteredFiles[1].id) \in Terminal
  /\ StatusOf(files, batch.filteredFiles[2].id) = "processing"

\* C9 as stated: from one state of a run to the next the number of terminal
\* items of the collection does not go down.
C9_ProgressMonotonic ==
  [][(isProcessing /\ isProcessing') => TerminalCount(files') >= TerminalCount(files)]_vars

\* C9 as amended: it does not go down except at the step of a scan that
\* completes during the run and replaces the collection.
C9_MonotonicExceptRescan ==
  [][(isProcessing /\ isProcessing' /\ ~ScanFiles)
       => TerminalCount(files') >= TerminalCount(files)]_vars

\* A later run is at its second item: its first item is terminal again and
\* the second, terminal since the earlier run, is in work.
C9_Witness ==
  /\ Running
  /\ batch.pos = 2
  /\ batch.filteredFiles[2].status \in Terminal
  /\ TerminalCount(files) >= 1

\* C10: the run's closure is the visible set of the moment it was triggered;
\* a step changes the status only of items of that set, and writes to the
\* destination only an entry under the final name of the item in work, empty
\* or with that item's bytes.
C10_OnlyVisibleItemsTouched ==
  [][/\ (~Running /\ Running') => IdSeq(batch'.filteredFiles) = IdSeq(filteredFiles)
     /\ \A id \in Kept :
          StatusOf(files', id) # StatusOf(files, id)
            => id \in IdsOf(batch.filteredFiles) \cup IdsOf(batch'.filteredFiles)
     /\ Running =>
          \A i \in 1..Len(batch.updatedFiles) :
            batch.updatedFiles[i].id \notin IdsOf(batch.filteredFiles)
              => /\ Running' => batch'.updatedFiles[i] = batch.updatedFiles[i]
                 /\ ~Running' => files'[i] = batch.updatedFiles[i]
     /\ dest' # dest =>
          /\ Running
          /\ CurrentItem.id \in IdsOf(batch.filteredFiles)
          /\ \A n \in DOMAIN dest' :
               (n \notin DOMAIN dest \/ dest'[n] # dest[n])
                 => /\ n = FinalName
                    /\ dest'[n] \in { "", SourceDir[CurrentItem.handle].bytes }]_vars

\* A run has ended that left an item of the collection out: that item is
\* still pending and nothing of it is in the destination.
C10_Witness ==
  /\ ~isProcessing
  /\ TerminalCount(files) >= 1
  /\ \E i \in 1..Len(files) :
       /\ files[i].status = "pending"
       /\ \A n \in DOMAIN dest : dest[n] # SourceDir[files[i].handle].bytes

\* ---------------------------------------------- claims on name derivation
\* The parts of a final name, in the words of the design.
EffectivePrefix(f) == IF f.prefix # << >> THEN f.prefix ELSE globalConfig.prefix
EffectiveSuffix(f) == IF f.suffix # << >> THEN f.suffix ELSE globalConfig.suffix
EffectiveExtension(f) ==
  IF f.extension # << >> THEN f.extension
  ELSE IF globalConfig.extension # << >> THEN globalConfig.extension
  ELSE getExtension(f.originalName)

\* The places (1-based) where find occurs in base.
Occurrences(base, find) ==
  { i \in 1..(Len(base) - Len(find) + 1) : SubSeq(base, i, i + Len(find) - 1) = find }
\* A choice of occurrences that do not overlap and leave no occurrence whole
\* between them.
NonOverlapping(S, find) == \A i, j \in S : i < j => i + Len(find) <= j
LeavesNone(S, base, find) ==
  \A k \in Occurrences(base, find) :
    \E i \in S : i < k + Len(find) /\ k < i + Len(find)
\* base with the occurrences at the places S replaced, read from place i on.
RECURSIVE ReplacedAt(_, _, _, _, _)
ReplacedAt(base, S, find, replace, i) ==
  IF i > Len(base) THEN << >>
  ELSE IF i \in S THEN replace \o ReplacedAt(base, S, find, replace, i + Len(find))
  ELSE << base[i] >> \o ReplacedAt(base, S, find, replace, i + 1)
\* The bases the design allows for a row.
ReplacedBases(f) ==
  IF globalConfig.find = << >> THEN { f.customBaseName }
  ELSE { ReplacedAt(f.customBaseName, S, globalConfig.find, globalConfig.replace, 1) :
           S \in { T \in SUBSET Occurrences(f.customBaseName, globalConfig.find) :
                     /\ NonOverlapping(T, globalConfig.find)
                     /\ LeavesNone(T, f.customBaseName, globalConfig.find) } }
\* What follows the suffix: the extension, with or without a dot before it.
ExtensionParts(f) == { EffectiveExtension(f), << "." >> \o EffectiveExtension(f) }

IMG_report_v1_png ==
  << "I", "M", "G", "_", "r", "e", "p", "o", "r", "t", "_", "v", "1", ".", "p", "n", "g" >>
ExampleRow(f) ==
  /\ f.prefix = << >> /\ f.suffix = << >> /\ f.extension = << >>
  /\ f.customBaseName = << "r", "e", "p", "o", "r", "t" >>
  /\ globalConfig.prefix = << "I", "M", "G", "_" >>
  /\ globalConfig.suffix = << "_", "v", "1" >>
  /\ globalConfig.extension = << "p", "n", "g" >>
  /\ globalConfig.find = << >>

\* C11: the final name begins with the item's prefix if it has one, else the
\* global prefix; after the base comes the item's suffix if it has one, else
\* the global suffix; and the example row is named IMG_report_v1.png.
C11_PrefixAndSuffixResolved ==
  \A i \in 1..Len(files) :
    LET f == files[i]
    IN  /\ \E base \in ReplacedBases(f) :
             StartsWith(ShownName(f), EffectivePrefix(f) \o base \o EffectiveSuffix(f))
        /\ ExampleRow(f) => ShownName(f) = IMG_report_v1_png

\* The example row of the design.
C11_Witness ==
  /\ Len(files) = 1
  /\ ExampleRow(files[1])
  /\ ShownName(files[1]) = IMG_report_v1_png

\* C12: what follows the suffix is the item's extension if it has one, else
\* the global extension if there is one, else the extension of the original
\* name, with or without a dot before it.
C12_ExtensionResolved ==
  \A i \in 1..Len(files) :
    LET f == files[i]
    IN  \E base \in ReplacedBases(f) :
          LET stem == Len(EffectivePrefix(f)) + Len(base) + Len(EffectiveSuffix(f))
          IN  Slice(ShownName(f), stem) \in ExtensionParts(f)

\* A row without an extension of its own, whose original name has one, under
\* a global extension: the global one is shown.
C12_Witness ==
  /\ Len(files) = 1
  /\ files[1].extension = << >>
  /\ getExtension(files[1].originalName) = << "t" >>
  /\ globalConfig.extension = << "p", "n", "g" >>
  /\ Slice(ShownName(files[1]), Len(ShownName(files[1])) - 4) = << ".", "p", "n", "g" >>

\* C13: with a find string, the base of the final name is customBaseName with
\* every occurrence of it (taken without overlap) replaced (draft_report_draft
\* becomes final_report_final); prefix, suffix and extension stay as typed;
\* without a find string the base is customBaseName.
C13_FindReplacesEveryOccurrence ==
  \A i \in 1..Len(files) :
    LET f == files[i]
        draft == << "d", "r", "a", "f", "t" >>
        final == << "f", "i", "n", "a", "l" >>
        report == << "_", "r", "e", "p", "o", "r", "t", "_" >>
    IN  /\ \E base \in ReplacedBases(f) : \E tail \in ExtensionParts(f) :
             ShownName(f) = EffectivePrefix(f) \o base \o EffectiveSuffix(f) \o tail
        /\ globalConfig.find = << >> =>
             StartsWith(ShownName(f), EffectivePrefix(f) \o f.customBaseName)
        /\ (/\ globalConfig.find = draft /\ globalConfig.replace = final
             /\ f.customBaseName = draft \o report \o draft) =>
             StartsWith(ShownName(f), EffectivePrefix(f) \o final \o report \o final)

\* The find string occurs in the base, in the prefix, in the suffix and in the
\* extension of a row, and only the base is changed.
C13_Witness ==
  /\ Len(files) = 1
  /\ globalConfig.find = << "p" >>
  /\ globalConfig.replace = << "f", "i", "n", "a", "l" >>
  /\ files[1].prefix = << "p", "_" >>
  /\ files[1].suffix = << "_", "p" >>
  /\ files[1].extension = << "p", "n", "g" >>
  /\ files[1].customBaseName = << "r", "e", "p", "o", "r", "t" >>
  /\ ShownName(files[1]) =
       << "p", "_" >> \o << "r", "e", "f", "i", "n", "a", "l", "o", "r", "t" >>
         \o << "_", "p" >> \o << ".", "p", "n", "g" >>

\* C14: the final name is prefix, base, suffix, separator and extension, the
\* separator being a dot exactly when the extension is not empty and does
\* not begin with a dot.
C14_SeparatorRule ==
  \A i \in 1..Len(files) :
    LET f == files[i]
        ext == EffectiveExtension(f)
        separator == IF ext # << >> /\ ~StartsWith(ext, << "." >>) THEN << "." >> ELSE << >>
    IN  \E base \in ReplacedBases(f) :
          ShownName(f) = EffectivePrefix(f) \o base \o EffectiveSuffix(f) \o separator \o ext

\* ------------------------------------------ claims on filter, sort, limit
\* The clauses of the filter, in the words of the design.
SameLetter(x, y) == LowerChar(x) = LowerChar(y)
SearchClause(f) ==
  \/ filters.search = << >>
  \/ \E k \in 0..(Len(f.originalName) - Len(filters.search)) :
       \A j \in 1..Len(filters.search) : SameLetter(f.originalName[k + j], filters.search[j])
SizeClause(f) == f.size >= filters.minSize * 1024
DateClause(f) ==
  /\ filters.dateStart # None => f.lastModified >= filters.dateStart[1] * DayMs
  /\ filters.dateEnd # None =>
       f.lastModified <= filters.dateEnd[1] * DayMs + ((23 * 60 + 59) * 60 + 59) * 1000
\* The visible set there would be without a limit.
WithoutLimit == filteredFilesOf(variant, files, [filters EXCEPT !.limit = None])

\* C15: apart from the limit, an item of the collection is in the visible
\* set exactly if its name contains the search string whatever the case,
\* its size is at least minSize KB and its date is within the window from
\* dateStart 00:00:00 to dateEnd 23:59:59; an empty input excludes nothing.
\* With a limit the visible set holds no other item.
C15_VisibleIffEveryClause ==
  /\ \A i \in 1..Len(files) :
       files[i].id \in IdsOf(WithoutLimit)
         <=> (SearchClause(files[i]) /\ SizeClause(files[i]) /\ DateClause(files[i]))
  /\ \A p \in 1..Len(WithoutLimit) : WithoutLimit[p] = files[IndexOfId(files, WithoutLimit[p].id)]
  /\ Len(WithoutLimit) = Cardinality(IdsOf(WithoutLimit))
  /\ IdsOf(filteredFiles) \subseteq IdsOf(WithoutLimit)

\* Of three files one is visible, one is out by the search alone and one by
\* the dates alone, the search matching a letter of the other case.
C15_Witness ==
  /\ Len(files) = 3
  /\ filters.search = << "B" >>
  /\ \E i, j, k \in 1..Len(files) :
       /\ files[i].id \in IdsOf(filteredFiles)
       /\ files[i].originalName = << "a", "b" >>
       /\ files[j].id \notin IdsOf(filteredFiles)
       /\ ~SearchClause(files[j]) /\ DateClause(files[j])
       /\ files[k].id \notin IdsOf(filteredFiles)
       /\ SearchClause(files[k]) /\ ~DateClause(files[k])

\* The variant at lines 1112-1622 has no sort key: no field, no select.
HasSortKey == variant \in { 1, 2 }
\* a may stand before b under the sort key.
MayPrecede(a, b) ==
  CASE filters.sort = "name_asc" -> localeCompare(a.originalName, b.originalName) <= 0
    [] filters.sort = "name_desc" -> localeCompare(a.originalName, b.originalName) >= 0
    [] filters.sort = "date_asc" -> a.lastModified <= b.lastModified
    [] filters.sort = "date_desc" -> a.lastModified >= b.lastModified
    [] filters.sort = "size_asc" -> a.size <= b.size
    [] filters.sort = "size_desc" -> a.size >= b.size
EqualSortKey(a, b) == HasSortKey => (MayPrecede(a, b) /\ MayPrecede(b, a))

\* C16: the visible set is in the order of the sort key, and two items with
\* equal sort key stand in the order they have in the collection.
C16_SortedAndStable ==
  \A p, q \in 1..Len(filteredFiles) :
    p < q =>
      /\ HasSortKey => MayPrecede(filteredFiles[p], filteredFiles[q])
      /\ EqualSortKey(filteredFiles[p], filteredFiles[q]) =>
           IndexOfId(files, filteredFiles[p].id) < IndexOfId(files, filteredFiles[q].id)

\* Three visible items under a sort by size or date: the sort moved an item,
\* and two items of equal key, whose names stand the other way round, kept
\* their order.
C16_Witness ==
  /\ HasSortKey
  /\ filters.sort \in { "size_asc", "size_desc", "date_asc", "date_desc" }
  /\ Len(filteredFiles) = 3
  /\ IdSeq(filteredFiles) # IdSeq(files)
  /\ \E p, q \in 1..Len(filteredFiles) :
       /\ p < q
       /\ EqualSortKey(filteredFiles[p], filteredFiles[q])
       /\ localeCompare(filteredFiles[p].originalName, filteredFiles[q].originalName) > 0

\* C17: with a limit N > 0 the visible set is the first N items of the
\* filtered, sorted sequence, all of it if it has fewer; with the limit
\* empty, 0 or negative it is all of that sequence.
C17_LimitAfterSort ==
  IF filters.limit # None /\ filters.limit[1] > 0
    THEN /\ Len(filteredFiles) <= filters.limit[1]
         /\ Len(filteredFiles) = filters.limit[1] \/ Len(filteredFiles) = Len(WithoutLimit)
         /\ filteredFiles = SubSeq(WithoutLimit, 1, Len(filteredFiles))
    ELSE filteredFiles = WithoutLimit

\* A limit of 2 cuts a sequence of 3 that the sort has reordered: the first
\* item of the collection is not among the two.
C17_Witness ==
  /\ filters.limit = Some(2)
  /\ Len(WithoutLimit) = 3
  /\ Len(filteredFiles) = 2
  /\ files[1].id \in IdsOf(WithoutLimit) \ IdsOf(filteredFiles)

\* ------------------------------------------------- claims on pasted names
\* The names of a paste, in the words of the design: the lines that are not
\* blank, trimmed.
IsBlank(line) == \A j \in 1..Len(line) : line[j] \in WhiteSpace
NonBlank(ls) == SelectSeq(ls, LAMBDA line : ~IsBlank(line))
\* The position (from 1) of an item in a visible set; 0 outside it.
PositionInView(view, id) ==
  IF \E p \in 1..Len(view) : view[p].id = id
    THEN CHOOSE p \in 1..Len(view) : view[p].id = id
    ELSE 0
\* The collection after names are given to the visible set view.
Assigned(fs, view, names) ==
  [i \in 1..Len(fs) |->
     LET p == PositionInView(view, fs[i].id)
     IN  IF p >= 1 /\ p <= Len(names) /\ p <= Len(view)
           THEN [fs[i] EXCEPT !.customBaseName = Trim(names[p])]
           ELSE fs[i]]
\* The lines with blank lines put before, between and after them.
RECURSIVE WithBlankLines(_)
WithBlankLines(ls) ==
  IF ls = << >> THEN << << >>, << " ", " " >> >>
  ELSE << << >>, << " " >>, ls[1] >> \o WithBlankLines(Tail(ls))

\* C18: a paste gives the visible item at position p the trimmed p-th
\* non-blank line, for every p within both the names and the visible set;
\* every other item, and every other field, stays as it is.
C18_NamesByVisiblePosition ==
  [][\A ls \in PastedLines : \A eol \in LineEnds :
       ApplyPastedNames(JoinLines(ls, eol)) =>
         files' = Assigned(files, filteredFiles, NonBlank(ls))]_vars

\* After a paste of two names: the visible item that stands later in the
\* collection has the first name, and a third item has the name of the scan.
C18_Witness ==
  \E i, j, k \in 1..Len(files) :
    /\ i < j
    /\ files[i].customBaseName = << "x" >>
    /\ files[j].customBaseName = << "y" >>
    /\ IdSeq(filteredFiles) = << files[j].id, files[i].id >>
    /\ files[k].customBaseName = getBaseName(files[k].originalName)

\* The pastes of the lines ls with the other line end, and with blank lines
\* added under either line end, give the collection result.
SamePaste(fs, view, ls, result) ==
  /\ result = PasteNames(fs, view, JoinLines(ls, << "\r", "\n" >>))
  /\ \A eol \in LineEnds : result = PasteNames(fs, view, JoinLines(WithBlankLines(ls), eol))

\* C19: a paste assigns the same names to the same items whether its lines
\* end in \n or in \r\n, and whether or not there are blank lines before,
\* between and after them.
C19_BlankLinesAndLineEnds ==
  [][\A ls \in PastedLines :
       ApplyPastedNames(JoinLines(ls, << "\n" >>)) =>
         /\ SamePaste(files, filteredFiles, ls, files')
         /\ \A i \in 1..Len(files') : ~IsBlank(files'[i].customBaseName) \/ files'[i] = files[i]]_vars

\* After a paste whose first line is blank: the first visible item has the
\* name of the second line, the next visible item the name of the scan.
C19_Witness ==
  /\ Len(filteredFiles) >= 2
  /\ filteredFiles[1].customBaseName = << "z" >>
  /\ filteredFiles[2].customBaseName = getBaseName(filteredFiles[2].originalName)

\* ------------------------------------------------------ claims on the scan
\* The regular files of the source folder, in enumeration order.
RegularFiles == SelectSeq(SourceDir, LAMBDA e : e.kind = "file")

\* C20: a scan leaves as the collection one new item for each regular file
\* of the folder, in enumeration order, pending, without message, named
\* after the file, with the base of that name as customBaseName and with
\* empty prefix and suffix; no item of the collection before is in it.
C20_RescanReplaces ==
  [][ScanFiles =>
       /\ Len(files') = Len(RegularFiles)
       /\ Cardinality(IdsOf(files')) = Len(files')
       /\ IdsOf(files') \cap IdsOf(files) = {}
       /\ \A k \in 1..Len(files') :
            LET name == RegularFiles[k].name
                dot == LastIndexOf(name, ".")
            IN  /\ files'[k].originalName = name
                /\ files'[k].size = RegularFiles[k].size
                /\ files'[k].lastModified = RegularFiles[k].lastModified
                /\ files'[k].status = "pending"
                /\ files'[k].errorMessage = None
                /\ files'[k].customBaseName = IF dot = -1 THEN name ELSE SubSeq(name, 1, dot)
                /\ files'[k].prefix = << >>
                /\ files'[k].suffix = << >>]_vars

\* The collection of a second scan, made after a run has copied a file: all
\* its items are new and pending.
C20_Witness ==
  /\ ~Running
  /\ dest # << >>
  /\ Len(files) = Len(RegularFiles)
  /\ \A i \in 1..Len(files) :
       /\ files[i].id > Len(RegularFiles)
       /\ files[i].status = "pending"
       /\ files[i].customBaseName = getBaseName(files[i].originalName)

\* C21: a scan whose enumeration fails part-way leaves the collection as it
\* was, empty before the first scan: none of the items it had built is added.
C21_FailedScanKeepsCollection ==
  [][\A k \in 0..(Len(FileEntries) - 1) : ScanFails(k) => files' = files]_vars

\* A scan failed after it had built an item, after a scan and an edit: the
\* collection is that of the first scan, with the edit.
C21_Witness ==
  /\ Len(files) = Len(RegularFiles)
  /\ IdsOf(files) = 1..Len(RegularFiles)
  /\ nextId > Len(RegularFiles)
  /\ \E i \in 1..Len(files) : files[i].customBaseName # getBaseName(files[i].originalName)

\* ------------------------------------------------- runs over a destination
\* What the destination directory the user picked may hold already.
Destinations == { << >>, (<< "a", ".", "t" >> :> "old bytes") }

\* The source has been scanned, the destination selected and the overwrite
\* box set; runs follow, with edits of the names between them.
CopyInit ==
  /\ variant \in Variants
  /\ files = [k \in 1..Len(FileEntries) |-> NewFileItem(k, FileEntries[k])]
  /\ \E o \in BOOLEAN : globalConfig = [InitialGlobalConfig EXCEPT !.overwrite = o]
  /\ filters = InitialFilters
  /\ destHandle = TRUE
  /\ dest \in Destinations
  /\ isProcessing = FALSE
  /\ showConfirm = FALSE
  /\ batch = IdleBatch
  /\ nextId = Len(FileEntries)
  /\ nOps = 0

CopyNext ==
  \/ SetCustomBaseName
  \/ ClickExecute \/ CancelConfirm \/ ExecuteBatch
  \/ BatchStep

CopySpec == CopyInit /\ [][CopyNext]_vars

\* ------------------------------------------- claims on the name of a new row
\* The row is as the scan made it: no input of the row has changed it.
Unedited(f) ==
  /\ f.prefix = << >>
  /\ f.suffix = << >>
  /\ f.customBaseName = getBaseName(f.originalName)
  /\ f.extension = getExtension(f.originalName)

EmptyGlobalConfig ==
  /\ globalConfig.prefix = << >>
  /\ globalConfig.suffix = << >>
  /\ globalConfig.extension = << >>
  /\ globalConfig.find = << >>

EndsWith(s, t) == Len(t) <= Len(s) /\ SubSeq(s, Len(s) - Len(t) + 1, Len(s)) = t

\* C26: with an empty global configuration, the final name of a row that is as
\* the scan made it is the original name of its file.
C26_FreshNameIsOriginal ==
  \A i \in 1..Len(files) :
    (Unedited(files[i]) /\ EmptyGlobalConfig) => ShownName(files[i]) = files[i].originalName

\* C27: with a global extension that is not empty (and has no dot of its own
\* in front), the final name of a row that is as the scan made it ends with
\* '.' and the global extension.
C27_GlobalExtensionOnFreshRow ==
  \A i \in 1..Len(files) :
    (/\ Unedited(files[i])
     /\ globalConfig.extension # << >>
     /\ ~StartsWith(globalConfig.extension, << "." >>))
      => EndsWith(ShownName(files[i]), << "." >> \o globalConfig.extension)

\* ------------------------------------------- claims on the steps of a run
\* The order of the file system calls made for one item.
StepOrder ==
  { << "getFile", "check" >>, << "check", "open" >>, << "open", "createWritable" >>,
    << "createWritable", "write" >>, << "write", "close" >> }

\* C22: for each item the run reads the source, checks for a collision,
\* opens or creates the target, writes and commits, in this order; an item
\* becomes success only at the step that completes its commit, which puts
\* its bytes in the destination; a rejected call never makes it success.
C22_StepsInOrder ==
  [][/\ (Running /\ Running' /\ batch'.pos = batch.pos /\ batch'.pc # batch.pc)
          => << batch.pc, batch'.pc >> \in StepOrder
     /\ (TurnEnds /\ batch.pc # "check") => batch.pc \in { "getFile", "open", "createWritable", "write", "close" }
     /\ Running' /\ (~Running \/ batch'.pos # batch.pos) => batch'.pc = "getFile"
     /\ \A id \in Kept :
          (StatusOf(files', id) = "success" /\ StatusOf(files, id) # "success")
            => /\ CloseResolves
               /\ id = CurrentItem.id
               /\ dest'[FinalName] = SourceDir[CurrentItem.handle].bytes
     /\ Rejects => StatusOf(files', CurrentItem.id) = "error"]_vars

\* C23: when no call fails, the turn of an item ends as skipped or as
\* success; as skipped only when an entry with its final name exists and the
\* run's overwrite setting is off, so with overwrite allowed, or with no such
\* entry, as success; and at success the entry with the final name holds the
\* item's bytes, replaced or created, the other entries being as they were.
C23_OverwriteOrCreate ==
  [][(TurnEnds /\ ~Rejects) =>
       LET id == CurrentItem.id
           name == FinalName
       IN  /\ StatusOf(files', id) \in { "skipped", "success" }
           /\ StatusOf(files', id) = "skipped" =>
                (~batch.globalConfig.overwrite /\ name \in DOMAIN dest /\ dest' = dest)
           /\ StatusOf(files', id) = "success" =>
                dest' = CommitEntry(dest, name, SourceDir[CurrentItem.handle].bytes)]_vars

\* With overwrite allowed, a run has ended in which a later item replaced the
\* entry an earlier item of the same final name had made.
C23_Witness ==
  /\ variant # 1 /\ ~Running /\ globalConfig.overwrite
  /\ LET view == filteredFiles
     IN  \E i, j \in 1..Len(view) :
           /\ i < j
           /\ view[i].status = "success" /\ view[j].status = "success"
           /\ getFinalName(variant, view[i], globalConfig) = getFinalName(variant, view[j], globalConfig)
           /\ getFinalName(variant, view[j], globalConfig) \in DOMAIN dest
           /\ dest[getFinalName(variant, view[j], globalConfig)] = SourceDir[view[j].handle].bytes
           /\ SourceDir[view[i].handle].bytes # SourceDir[view[j].handle].bytes

\* C24: a step of the run keeps the prefix, suffix, extension and
\* customBaseName every item has in the collection.
C24_EditsSurviveBatchUpdates ==
  [][BatchStep =>
       \A id \in Kept :
         LET a == files[IndexOfId(files, id)]
             b == files'[IndexOfId(files', id)]
         IN  /\ b.prefix = a.prefix
             /\ b.suffix = a.suffix
             /\ b.extension = a.extension
             /\ b.customBaseName = a.customBaseName]_vars

\* C25: a step of the run leaves in the collection the items that are in
\* it, those of the last scan, and no others.
C25_RescanNotUndone ==
  [][BatchStep => IdSeq(files') = IdSeq(files)]_vars

\* C28: with overwrite off, an item whose final name is that of an earlier
\* item of the run, which ended success and whose bytes the entry holds, ends
\* its turn, unless a call fails, as skipped, and the entry keeps the bytes.
C28_LaterDuplicateSkipped ==
  [][(/\ TurnEnds /\ ~Rejects
      /\ ~batch.globalConfig.overwrite
      /\ FinalName \in DOMAIN dest
      /\ \E q \in 1..(batch.pos - 1) :
           /\ getFinalName(variant, batch.filteredFiles[q], batch.globalConfig) = FinalName
           /\ StatusOf(batch.updatedFiles, batch.filteredFiles[q].id) = "success"
           /\ dest[FinalName] = SourceDir[batch.filteredFiles[q].handle].bytes
           /\ batch.filteredFiles[q].handle # CurrentItem.handle)
       => /\ StatusOf(files', CurrentItem.id) = "skipped"
          /\ dest' = dest]_vars

C30_VisibleSetStable ==
  [][(BatchStep \/ SetCustomBaseName) =>
       IdSeq(filteredFilesOf(variant', files', filters')) = IdSeq(filteredFiles)]_vars

=============================================================================
